---- MODULE Spec2Model ----
(***************************************************************************)
(* Model of the falling-block rules engine of src/src/lib.rs (struct Game). *)
(* The private helpers of Game are operators on a record g that holds the  *)
(* fields of the struct; the public mutators are the actions of Spec.      *)
(***************************************************************************)
EXTENDS Integers, Sequences, FiniteSets, TLC

VARIABLES board, current, next, score, lines, game_over,
          panicked, op, ret, plan, pc, free, arg, locks, fallen, ticking

\* locks: the pieces locked since new() or the last reset() (history).
\* fallen: the calls that returned Moved since the current piece was
\* spawned (history).
\* ticking: the caller has started to call tick until it returns Locked
\* (0: no, 1: yes, 2: Locked received); only SpecFall uses it.

gameVars == <<board, current, next, score, lines, game_over>>
vars == <<board, current, next, score, lines, game_over,
          panicked, op, ret, plan, pc, free, arg, locks, fallen, ticking>>

-----------------------------------------------------------------------------
(* Program constants *)

BOARD_W == 10
BOARD_H == 20

I == 1
O == 2
T == 3
S == 4
Z == 5
J == 6
L == 7

Tetromino == {I, O, T, S, Z, J, L}

\* score and lines are u32.  A u32 value n is the pair <<hi, lo>> of its
\* 16-bit halves, n = hi * HALF + lo; an exact (unwrapped) intermediate
\* result is such a pair with hi >= HALF allowed.
HALF == 65536

w_of(n) == <<n \div HALF, n % HALF>>
w_norm(hi, lo) == <<hi + (lo \div HALF), lo % HALF>>
w_add(a, b) == w_norm(a[1] + b[1], a[2] + b[2])
w_mul(k, a) == w_norm(k * a[1], k * a[2])
w_div10(a) == <<a[1] \div 10, (((a[1] % 10) * HALF) + a[2]) \div 10>>
w_leq(a, b) == a[1] < b[1] \/ (a[1] = b[1] /\ a[2] <= b[2])
w_fits(a) == a[1] < HALF
w_wrap(a) == <<a[1] % HALF, a[2]>>
U32_MAX == <<HALF - 1, HALF - 1>>

NCells == BOARD_W * BOARD_H

\* SHAPES[kind][rot + 1][i] = <<dx, dy>>
SHAPES ==
  << << << <<0,1>>, <<1,1>>, <<2,1>>, <<3,1>> >>,
        << <<2,0>>, <<2,1>>, <<2,2>>, <<2,3>> >>,
        << <<0,2>>, <<1,2>>, <<2,2>>, <<3,2>> >>,
        << <<1,0>>, <<1,1>>, <<1,2>>, <<1,3>> >> >>,
     << << <<1,0>>, <<2,0>>, <<1,1>>, <<2,1>> >>,
        << <<1,0>>, <<2,0>>, <<1,1>>, <<2,1>> >>,
        << <<1,0>>, <<2,0>>, <<1,1>>, <<2,1>> >>,
        << <<1,0>>, <<2,0>>, <<1,1>>, <<2,1>> >> >>,
     << << <<1,0>>, <<0,1>>, <<1,1>>, <<2,1>> >>,
        << <<1,0>>, <<1,1>>, <<2,1>>, <<1,2>> >>,
        << <<0,1>>, <<1,1>>, <<2,1>>, <<1,2>> >>,
        << <<1,0>>, <<0,1>>, <<1,1>>, <<1,2>> >> >>,
     << << <<1,0>>, <<2,0>>, <<0,1>>, <<1,1>> >>,
        << <<1,0>>, <<1,1>>, <<2,1>>, <<2,2>> >>,
        << <<1,1>>, <<2,1>>, <<0,2>>, <<1,2>> >>,
        << <<0,0>>, <<0,1>>, <<1,1>>, <<1,2>> >> >>,
     << << <<0,0>>, <<1,0>>, <<1,1>>, <<2,1>> >>,
        << <<2,0>>, <<1,1>>, <<2,1>>, <<1,2>> >>,
        << <<0,1>>, <<1,1>>, <<1,2>>, <<2,2>> >>,
        << <<1,0>>, <<0,1>>, <<1,1>>, <<0,2>> >> >>,
     << << <<0,0>>, <<0,1>>, <<1,1>>, <<2,1>> >>,
        << <<1,0>>, <<2,0>>, <<1,1>>, <<1,2>> >>,
        << <<0,1>>, <<1,1>>, <<2,1>>, <<2,2>> >>,
        << <<1,0>>, <<1,1>>, <<0,2>>, <<1,2>> >> >>,
     << << <<2,0>>, <<0,1>>, <<1,1>>, <<2,1>> >>,
        << <<1,0>>, <<1,1>>, <<1,2>>, <<2,2>> >>,
        << <<0,1>>, <<1,1>>, <<2,1>>, <<0,2>> >>,
        << <<0,0>>, <<1,0>>, <<1,1>>, <<1,2>> >> >> >>

\* the kicks with the right side tried before the left
KICKS_right_first == <<0, 1, -1, 2, -2>>

KICKS == <<0, -1, 1, -2, 2>>

-----------------------------------------------------------------------------
(* Step: the value returned by tick, soft_drop and hard_drop.  Unit stands *)
(* for the calls that return nothing.                                      *)

Moved == [tag |-> "Moved", cleared |-> 0, game_over |-> FALSE]
Locked(c, go) == [tag |-> "Locked", cleared |-> c, game_over |-> go]
GameOver == [tag |-> "GameOver", cleared |-> 0, game_over |-> FALSE]
Unit == [tag |-> "Unit", cleared |-> 0, game_over |-> FALSE]

-----------------------------------------------------------------------------
(* Pure helpers *)

id(kind) == kind

shape_index(kind) == id(kind) - 1

Piece(kind, rot, x, y) == [kind |-> kind, rot |-> rot, x |-> x, y |-> y]

\* The 4 absolute cells <<x, y>> of a piece.
blocks_for(piece) ==
  LET rot == piece.rot % 4
      shape == SHAPES[shape_index(piece.kind) + 1][rot + 1]
  IN  [i \in 1..4 |-> <<piece.x + shape[i][1], piece.y + shape[i][2]>>]

\* A usize index into the Vec: an i32 cast to usize is in range only here.
IdxOK(idx) == idx >= 0 /\ idx < NCells

\* is_valid without the test x >= BOARD_W; a read past the Vec finds nothing.
is_valid_no_right_wall(b, piece) ==
  LET bs == blocks_for(piece)
  IN  \A i \in 1..4 :
        /\ ~(bs[i][1] < 0 \/ bs[i][2] >= BOARD_H)
        /\ (bs[i][2] >= 0 /\ IdxOK(bs[i][2] * BOARD_W + bs[i][1]))
             => b[bs[i][2] * BOARD_W + bs[i][1]] = 0

is_valid(b, piece) ==
  LET bs == blocks_for(piece)
  IN  \A i \in 1..4 :
        /\ ~(bs[i][1] < 0 \/ bs[i][1] >= BOARD_W \/ bs[i][2] >= BOARD_H)
        /\ (bs[i][2] >= 0) => b[bs[i][2] * BOARD_W + bs[i][1]] = 0

\* The indices is_valid computes for a piece: a block reaches the index
\* computation only after the range test of line 320 and the y >= 0 test.
is_valid_indices(piece) ==
  LET bs == blocks_for(piece)
  IN  { bs[i][2] * BOARD_W + bs[i][1] :
          i \in { j \in 1..4 :
                    /\ ~(bs[j][1] < 0 \/ bs[j][1] >= BOARD_W
                           \/ bs[j][2] >= BOARD_H)
                    /\ bs[j][2] >= 0 } }

level(g) == w_add(w_div10(g.lines), w_of(1))

random_piece(n) ==
  CASE n = 0 -> I
    [] n = 1 -> O
    [] n = 2 -> T
    [] n = 3 -> S
    [] n = 4 -> Z
    [] n = 5 -> J
    [] OTHER -> L

-----------------------------------------------------------------------------
(* The struct Game as a record g, and its private helpers.                 *)
(* g.panicked: the process aborted (an index outside the Vec, or an        *)
(* arithmetic overflow in a build with overflow checks); nothing runs      *)
(* after it.                                                               *)

Game(b, cur, nxt, sc, ln, go, pan) ==
  [board |-> b, current |-> cur, next |-> nxt, score |-> sc, lines |-> ln,
   game_over |-> go, panicked |-> pan]

EmptyBoard == [i \in 0..(NCells - 1) |-> 0]

\* try_move: [g |-> the game after the call, ok |-> the returned bool]
try_move(g, dx, dy) ==
  LET moved == [g.current EXCEPT !.x = @ + dx, !.y = @ + dy]
  IN  IF is_valid(g.board, moved)
        THEN [g |-> [g EXCEPT !.current = moved], ok |-> TRUE]
        ELSE [g |-> g, ok |-> FALSE]

\* the indices of lock_piece with the first block left out
lock_indices_three(piece) ==
  LET bs == blocks_for(piece)
  IN  { IF bs[i][2] * BOARD_W + bs[i][1] < 0 THEN -1
        ELSE bs[i][2] * BOARD_W + bs[i][1] :
          i \in { j \in 2..4 : ~(bs[j][2] < 0) } }

\* The usize indices lock_piece writes: blocks with y < 0 are skipped; a
\* negative i32 cast to usize is far outside the Vec (here: -1).
lock_indices(piece) ==
  LET bs == blocks_for(piece)
  IN  { IF bs[i][2] * BOARD_W + bs[i][1] < 0 THEN -1
        ELSE bs[i][2] * BOARD_W + bs[i][1] :
          i \in { j \in 1..4 : ~(bs[j][2] < 0) } }

\* lock_piece writing the shape-table index of the kind instead of its id.
lock_piece_shape_index(g) ==
  LET idxs == lock_indices(g.current)
  IN  IF g.panicked THEN g
      ELSE IF \E idx \in idxs : ~IdxOK(idx)
        THEN [g EXCEPT !.panicked = TRUE]
        ELSE [g EXCEPT !.board =
                [i \in 0..(NCells - 1) |->
                   IF i \in idxs THEN shape_index(g.current.kind)
                   ELSE g.board[i]]]

lock_piece(g) ==
  LET idxs == lock_indices(g.current)
  IN  IF g.panicked THEN g
      ELSE IF \E idx \in idxs : ~IdxOK(idx)
        THEN [g EXCEPT !.panicked = TRUE]
        ELSE [g EXCEPT !.board =
                [i \in 0..(NCells - 1) |->
                   IF i \in idxs THEN id(g.current.kind) ELSE g.board[i]]]

\* row_full that stops one column short of the right wall
row_full_short(b, y) == \A x \in 0..(BOARD_W - 2) : b[y * BOARD_W + x] # 0

\* Line 349-355: the row y has no empty cell.
row_full(b, y) == \A x \in 0..(BOARD_W - 1) : b[y * BOARD_W + x] # 0

\* shift_down with the rows copied from the top down: every row down to y
\* becomes a copy of row 0
shift_down_ascending(b, y) ==
  [i \in 0..(NCells - 1) |->
     IF i < BOARD_W THEN 0
     ELSE IF i \div BOARD_W <= y THEN b[i % BOARD_W]
     ELSE b[i]]

\* Lines 360-370: rows [0..y) move down by one, the top row is zeroed.
shift_down(b, y) ==
  [i \in 0..(NCells - 1) |->
     IF i < BOARD_W THEN 0
     ELSE IF i \div BOARD_W <= y THEN b[i - BOARD_W]
     ELSE b[i]]

\* The while loop of clear_lines going on to the row above after a clear,
\* without testing row y again.
RECURSIVE clear_from_skip(_, _, _)
clear_from_skip(b, y, cleared) ==
  IF ~(y >= 0) THEN [board |-> b, cleared |-> cleared]
  ELSE IF row_full(b, y)
    THEN clear_from_skip(shift_down(b, y), y - 1, cleared + 1)
  ELSE clear_from_skip(b, y - 1, cleared)

\* The while loop of clear_lines from row y upwards.
RECURSIVE clear_from(_, _, _)
clear_from(b, y, cleared) ==
  IF ~(y >= 0) THEN [board |-> b, cleared |-> cleared]
  ELSE IF row_full(b, y) THEN clear_from(shift_down(b, y), y, cleared + 1)
  ELSE clear_from(b, y - 1, cleared)

\* An arithmetic overflow panics in a build with overflow checks and wraps
\* in one without: where a u32 operation does not fit, both outcomes are
\* possible, and an operation gives the set of its outcomes.

\* clear_lines: the outcomes [g, cleared]; `self.lines += cleared` is a
\* plain u32 addition.
clear_lines(g) ==
  IF g.panicked THEN {[g |-> g, cleared |-> 0]}
  ELSE LET r == clear_from(g.board, BOARD_H - 1, 0)
           sum == w_add(g.lines, w_of(r.cleared))
           done == [g EXCEPT !.board = r.board, !.lines = w_wrap(sum)]
       IN  IF w_fits(sum) THEN {[g |-> done, cleared |-> r.cleared]}
           ELSE {[g |-> done, cleared |-> r.cleared],
                 [g |-> [g EXCEPT !.panicked = TRUE], cleared |-> r.cleared]}

\* base with the four-row value mistyped.
base_typo(cleared) ==
  CASE cleared = 1 -> 40
    [] cleared = 2 -> 100
    [] cleared = 3 -> 300
    [] cleared = 4 -> 1000
    [] OTHER -> 0

base(cleared) ==
  CASE cleared = 1 -> 40
    [] cleared = 2 -> 100
    [] cleared = 3 -> 300
    [] cleared = 4 -> 1200
    [] OTHER -> 0

saturating_add(a, b) == IF ~w_fits(w_add(a, b)) THEN U32_MAX ELSE w_add(a, b)

\* apply_score assigning the increment instead of adding it.
apply_score_assign(g, cleared) ==
  IF g.panicked THEN {g}
  ELSE {[g EXCEPT !.score = w_wrap(w_mul(base(cleared), level(g)))]}

\* apply_score with the level of the line total before this lock.
apply_score_old_level(g, cleared) ==
  IF g.panicked THEN {g}
  ELSE LET lvl == (((g.lines[1] * HALF + g.lines[2]) - cleared) \div 10) + 1
       IN  {[g EXCEPT !.score =
               saturating_add(g.score, w_of(base(cleared) * lvl))]}

\* apply_score: the outcomes g.  `add * lvl` is a plain u32 product; only
\* the sum saturates.
apply_score(g, cleared) ==
  IF g.panicked THEN {g}
  ELSE LET lvl == level(g)
           add == base(cleared)
           prod == w_mul(add, lvl)
           done == [g EXCEPT !.score = saturating_add(g.score, w_wrap(prod))]
       IN  IF w_fits(prod) THEN {done}
           ELSE {done, [g EXCEPT !.panicked = TRUE]}

\* spawn_new_piece; n is the value the random source draws for the lookahead.
\* spawn_new_piece that places the piece one row above the board
spawn_new_piece_above(g, n) ==
  IF g.panicked THEN g
  ELSE LET kind == g.next
           cur == Piece(kind, 0, 3, -1)
       IN  [g EXCEPT !.next = random_piece(n),
                     !.current = cur,
                     !.game_over = IF ~is_valid(g.board, cur) THEN TRUE ELSE @]

\* spawn_new_piece that takes the kind from the fresh draw, not from `next`
spawn_new_piece_fresh_kind(g, n) ==
  IF g.panicked THEN g
  ELSE LET kind == random_piece(n)
           cur == Piece(kind, 0, 3, 0)
       IN  [g EXCEPT !.next = random_piece(n),
                     !.current = cur,
                     !.game_over = IF ~is_valid(g.board, cur) THEN TRUE ELSE @]

spawn_new_piece(g, n) ==
  IF g.panicked THEN g
  ELSE LET kind == g.next
           cur == Piece(kind, 0, 3, 0)
       IN  [g EXCEPT !.next = random_piece(n),
                     !.current = cur,
                     !.game_over = IF ~is_valid(g.board, cur) THEN TRUE ELSE @]

\* lock -> clear -> score -> spawn (lines 212-220 and 245-253): the
\* outcomes [g, ret].
lock_sequence(g, n) ==
  UNION { { LET spawned == spawn_new_piece(scored, n)
            IN  [g |-> spawned, ret |-> Locked(c.cleared, spawned.game_over)] :
              scored \in apply_score(c.g, c.cleared) } :
          c \in UNION { clear_lines(locked) : locked \in {lock_piece(g)} } }

-----------------------------------------------------------------------------
(* The public interface.  tick, soft_drop and hard_drop give the set of    *)
(* their outcomes [g, ret]; the others give the game after the call.       *)

new(n0, n1) ==
  LET g0 == Game(EmptyBoard, Piece(I, 0, 3, 0), I, w_of(0), w_of(0),
                 FALSE, FALSE)
  IN  spawn_new_piece([g0 EXCEPT !.next = random_piece(n0)], n1)

\* reset without board.fill(0).
reset_keeps_board(g, n0, n1) ==
  spawn_new_piece([g EXCEPT !.score = w_of(0), !.lines = w_of(0),
                            !.game_over = FALSE,
                            !.next = random_piece(n0)], n1)

reset(g, n0, n1) ==
  spawn_new_piece([g EXCEPT !.board = EmptyBoard, !.score = w_of(0),
                            !.lines = w_of(0), !.game_over = FALSE,
                            !.next = random_piece(n0)], n1)

RECURSIVE ghost_from(_, _)
ghost_from(b, p) ==
  LET nxt == [p EXCEPT !.y = @ + 1]
  IN  IF is_valid(b, nxt) THEN ghost_from(b, nxt) ELSE p

ghost_piece(g) == ghost_from(g.board, g.current)

\* tick without the game_over test.
tick_unguarded(g, n) ==
  LET m == try_move(g, 0, 1)
  IN  IF m.ok THEN {[g |-> m.g, ret |-> Moved]}
      ELSE lock_sequence(g, n)

\* tick that locks as soon as the piece has landed, in the call that moved it
tick_lock_on_landing(g, n) ==
  LET m == try_move(g, 0, 1)
  IN  IF g.game_over THEN {[g |-> g, ret |-> GameOver]}
      ELSE IF m.ok
        THEN IF try_move(m.g, 0, 1).ok THEN {[g |-> m.g, ret |-> Moved]}
             ELSE lock_sequence(m.g, n)
      ELSE lock_sequence(g, n)

\* tick that never locks: a piece that cannot move down stays where it is
tick_never_locks(g, n) ==
  LET m == try_move(g, 0, 1)
  IN  IF g.game_over THEN {[g |-> g, ret |-> GameOver]}
      ELSE IF m.ok THEN {[g |-> m.g, ret |-> Moved]}
      ELSE {[g |-> g, ret |-> Moved]}

tick(g, n) ==
  LET m == try_move(g, 0, 1)
  IN  IF g.game_over THEN {[g |-> g, ret |-> GameOver]}
      ELSE IF m.ok THEN {[g |-> m.g, ret |-> Moved]}
      ELSE lock_sequence(g, n)

move_left(g) == IF ~g.game_over THEN try_move(g, -1, 0).g ELSE g

move_right(g) == IF ~g.game_over THEN try_move(g, 1, 0).g ELSE g

soft_drop(g, n) == tick(g, n)

\* while self.try_move(0, 1) {}
RECURSIVE descend(_)
descend(g) ==
  LET m == try_move(g, 0, 1)
  IN  IF m.ok THEN descend(m.g) ELSE g

\* hard_drop with `if` in the place of `while`: the piece falls one row only
hard_drop_one_row(g, n) ==
  IF g.game_over THEN {[g |-> g, ret |-> GameOver]}
  ELSE lock_sequence(try_move(g, 0, 1).g, n)

hard_drop(g, n) ==
  IF g.game_over THEN {[g |-> g, ret |-> GameOver]}
  ELSE lock_sequence(descend(g), n)

\* The for loop over KICKS from candidate i on.
RECURSIVE kick_from(_, _, _)
kick_from(g, rotated, i) ==
  IF i > Len(KICKS) THEN g
  ELSE LET candidate == [rotated EXCEPT !.x = @ + KICKS[i]]
       IN  IF is_valid(g.board, candidate)
             THEN [g EXCEPT !.current = candidate]
             ELSE kick_from(g, rotated, i + 1)

\* rotate_cw without the reduction mod 4.
rotate_cw_no_mod(g) ==
  IF g.game_over THEN g
  ELSE kick_from(g, [g.current EXCEPT !.rot = @ + 1], 1)

rotate_cw(g) ==
  IF g.game_over THEN g
  ELSE kick_from(g, [g.current EXCEPT !.rot = (@ + 1) % 4], 1)

\* The calls that reach random_piece draw from the random source.
tick_draws(g) ==
  IF g.game_over \/ try_move(g, 0, 1).ok THEN {0} ELSE 0..6

hard_drop_draws(g) == IF g.game_over THEN {0} ELSE 0..6

-----------------------------------------------------------------------------
(* The caller.  A session replays one recorded call sequence (a plan, with *)
(* the values the random source drew) from new(), then makes up to MaxFree *)
(* arbitrary calls with arbitrary draws.                                   *)

MaxFree == 1

Draws == 0..6

Call(o, n, m) == [op |-> o, n |-> n, m |-> m]

Rep(k, c) == [i \in 1..k |-> c]

Ticks(k) == Rep(k, Call("tick", 0, 0))

\* rots rotations, then |shift| moves (left if negative).
Steer(rots, shift) ==
  Rep(rots, Call("rotate_cw", 0, 0))
    \o (IF shift < 0 THEN Rep(-shift, Call("move_left", 0, 0))
        ELSE Rep(shift, Call("move_right", 0, 0)))

\* Steer, then hard_drop; n is drawn for the lookahead.
Place(rots, shift, n) == Steer(rots, shift) \o <<Call("hard_drop", n, 0)>>

RECURSIVE Concat(_)
Concat(ss) == IF ss = <<>> THEN <<>> ELSE Head(ss) \o Concat(Tail(ss))

\* An I piece, rotated once at the spawn origin, stands in column 5.
VerticalI(col) == Place(1, col - 5, 0)
\* An I piece at rotation 0 spans columns x..x+3 from x = 3.
FlatI(x) == Place(0, x - 3, 0)

\* Ten vertical I pieces side by side: four full rows.
TenVertical == Concat([c \in 1..10 |-> VerticalI(c - 1)])
\* k rows filled in columns 0..7 by flat I pieces.
FlatRows(k) == Concat([r \in 1..k |-> FlatI(0) \o FlatI(4)])
\* A vertical I in column 8, the next one lowered in column 9 onto the floor.
CloseRows == VerticalI(8) \o Steer(1, 4) \o Ticks(16)

FixedPlans ==
  << \* 1: nothing recorded: any freshly constructed game
     [seed |-> <<>>, calls |-> <<>>],
     \* 2: column 5 filled by five vertical I pieces; the spawn is blocked
     [seed |-> <<0, 0>>, calls |-> Concat(Rep(5, VerticalI(5)))],
     \* 3: the same, the fifth piece not yet locked, an O piece next
     [seed |-> <<0, 0>>,
      calls |-> Concat(Rep(3, VerticalI(5))) \o Place(1, 0, 1) \o Steer(1, 0)],
     \* 4: I pieces standing in columns 4 and 6, a flat I lowered between
     \*    them to row 15
     [seed |-> <<0, 0>>,
      calls |-> VerticalI(4) \o VerticalI(6) \o Ticks(14)],
     \* 5: ten vertical I pieces, the last one resting but not locked
     [seed |-> <<0, 0>>,
      calls |-> SubSeq(TenVertical, 1, Len(TenVertical) - 1) \o Ticks(16)],
     \* 6: two four-row clears, then four more rows prepared
     [seed |-> <<0, 0>>,
      calls |-> TenVertical \o TenVertical \o FlatRows(4) \o CloseRows],
     \* 7..9: one, two, three rows prepared
     [seed |-> <<0, 0>>, calls |-> FlatRows(1) \o CloseRows],
     [seed |-> <<0, 0>>, calls |-> FlatRows(2) \o CloseRows],
     [seed |-> <<0, 0>>, calls |-> FlatRows(3) \o CloseRows],
     \* 10: a row cleared and locked in, then a T piece falling
     [seed |-> <<0, 0>>,
      calls |-> FlatRows(1) \o VerticalI(8) \o Place(1, 4, 2) \o Ticks(3)],
     \* 11: an I piece standing in column 5, a flat I lowered to row 14
     \*     above it: turning it needs a kick, and both sides are free
     [seed |-> <<0, 0>>, calls |-> VerticalI(5) \o Ticks(13)] >>

\* Each kind steered to the left wall and, turned twice more, to the right
\* wall, and lowered; the kind after it follows.
WalkPlans ==
  [i \in 1..14 |->
     LET k == (i - 1) % 7
         side == (i - 1) \div 7
     IN  [seed |-> <<k, (k + 1) % 7>>,
          calls |-> Steer((k + 2 * side) % 4, IF side = 0 THEN -6 ELSE 6)
                     \o Ticks(15)]]

Plans == FixedPlans \o WalkPlans

Recorded == pc < Len(Plans[plan].calls)

Allowed(o, n, m) ==
  /\ ~panicked
  /\ ticking = 0
  /\ IF Recorded THEN Plans[plan].calls[pc + 1] = Call(o, n, m)
     ELSE free < MaxFree
  /\ pc' = IF Recorded THEN pc + 1 ELSE pc
  /\ free' = IF Recorded THEN free ELSE free + 1

-----------------------------------------------------------------------------
(* State machine *)

G == Game(board, current, next, score, lines, game_over, panicked)

Set(g) ==
  /\ board' = g.board
  /\ current' = g.current
  /\ next' = g.next
  /\ score' = g.score
  /\ lines' = g.lines
  /\ game_over' = g.game_over
  /\ panicked' = g.panicked

Set0(g) ==
  /\ board = g.board
  /\ current = g.current
  /\ next = g.next
  /\ score = g.score
  /\ lines = g.lines
  /\ game_over = g.game_over
  /\ panicked = g.panicked

Init ==
  \E p \in 1..Len(Plans), n0 \in Draws, n1 \in Draws :
    /\ Plans[p].seed \in {<<>>, <<n0, n1>>}
    /\ Set0(new(n0, n1))
    /\ plan = p
    /\ pc = 0
    /\ free = 0
    /\ arg = 0
    /\ op = "new"
    /\ ret = Unit
    /\ locks = 0
    /\ fallen = 0
    /\ ticking = 0

Tick ==
  \E n \in tick_draws(G) : \E r \in tick(G, n) :
    /\ Allowed("tick", n, 0)
    /\ Set(r.g)
    /\ ret' = r.ret
    /\ op' = "tick"
    /\ locks' = IF r.ret.tag = "Locked" THEN locks + 1 ELSE locks
    /\ fallen' = IF r.ret.tag = "Locked" THEN 0
                 ELSE IF r.ret.tag = "Moved" THEN fallen + 1 ELSE fallen
    /\ UNCHANGED <<plan, arg, ticking>>

SoftDrop ==
  \E n \in tick_draws(G) : \E r \in soft_drop(G, n) :
    /\ Allowed("soft_drop", n, 0)
    /\ Set(r.g)
    /\ ret' = r.ret
    /\ op' = "soft_drop"
    /\ locks' = IF r.ret.tag = "Locked" THEN locks + 1 ELSE locks
    /\ fallen' = IF r.ret.tag = "Locked" THEN 0
                 ELSE IF r.ret.tag = "Moved" THEN fallen + 1 ELSE fallen
    /\ UNCHANGED <<plan, arg, ticking>>

HardDrop ==
  \E n \in hard_drop_draws(G) : \E r \in hard_drop(G, n) :
    /\ Allowed("hard_drop", n, 0)
    /\ Set(r.g)
    /\ ret' = r.ret
    /\ op' = "hard_drop"
    /\ locks' = IF r.ret.tag = "Locked" THEN locks + 1 ELSE locks
    /\ fallen' = IF r.ret.tag = "Locked" THEN 0
                 ELSE IF r.ret.tag = "Moved" THEN fallen + 1 ELSE fallen
    /\ UNCHANGED <<plan, arg, ticking>>

MoveLeft ==
  /\ Allowed("move_left", 0, 0)
  /\ Set(move_left(G))
  /\ ret' = Unit
  /\ op' = "move_left"
  /\ UNCHANGED <<plan, arg, locks, fallen, ticking>>

MoveRight ==
  /\ Allowed("move_right", 0, 0)
  /\ Set(move_right(G))
  /\ ret' = Unit
  /\ op' = "move_right"
  /\ UNCHANGED <<plan, arg, locks, fallen, ticking>>

RotateCw ==
  /\ Allowed("rotate_cw", 0, 0)
  /\ Set(rotate_cw(G))
  /\ ret' = Unit
  /\ op' = "rotate_cw"
  /\ UNCHANGED <<plan, arg, locks, fallen, ticking>>

Reset ==
  \E n0 \in Draws, n1 \in Draws :
    /\ Allowed("reset", n0, n1)
    /\ Set(reset(G, n0, n1))
    /\ ret' = Unit
    /\ op' = "reset"
    /\ locks' = 0
    /\ fallen' = 0
    /\ UNCHANGED <<plan, arg, ticking>>

Next ==
  \/ Tick
  \/ SoftDrop
  \/ HardDrop
  \/ MoveLeft
  \/ MoveRight
  \/ RotateCw
  \/ Reset

Spec == Init /\ [][Next]_vars

-----------------------------------------------------------------------------
(* apply_score as a function of its inputs: score and lines range over     *)
(* sample u32 values up to the ceiling, arg is the `cleared` argument.     *)

ScoreInputs == {w_of(0), w_of(1200), <<HALF - 1, HALF - 41>>, U32_MAX}

LinesInputs ==
  {w_of(0), w_of(9), w_of(10), w_of(35791389), w_of(35791390),
   w_of(1073741820), U32_MAX}

InitScore ==
  /\ score \in ScoreInputs
  /\ lines \in LinesInputs
  /\ arg \in 0..4
  /\ board = EmptyBoard
  /\ current = Piece(I, 0, 3, 0)
  /\ next = I
  /\ game_over = FALSE
  /\ panicked = FALSE
  /\ op = "input"
  /\ ret = Unit
  /\ plan = 1
  /\ pc = 0
  /\ free = 0
  /\ locks = 0
  /\ fallen = 0
  /\ ticking = 0

ApplyScore ==
  /\ op = "input"
  /\ \E g \in apply_score(G, arg) : Set(g)
  /\ op' = "apply_score"
  /\ UNCHANGED <<ret, plan, pc, free, arg, locks, fallen, ticking>>

NextScore == ApplyScore

SpecScore == InitScore /\ [][NextScore]_vars

-----------------------------------------------------------------------------
(* Properties *)

Drops == {"tick", "soft_drop", "hard_drop"}

\* C1: once game_over is true, tick, soft_drop and hard_drop return
\* GameOver and every call other than reset leaves board, current piece,
\* next kind, score, lines and game_over unchanged.
C1_GameOverFrozen ==
  [][(game_over /\ op' # "reset")
       => /\ UNCHANGED gameVars
          /\ op' \in Drops => ret' = GameOver]_vars

C1_Witness == game_over /\ op = "hard_drop" /\ ret = GameOver /\ free = 1

InBoard(piece) ==
  \A i \in 1..4 :
    /\ blocks_for(piece)[i][1] >= 0 /\ blocks_for(piece)[i][1] < 10
    /\ blocks_for(piece)[i][2] >= 0 /\ blocks_for(piece)[i][2] < 20

\* C3: right after new() and right after reset() the board is empty, score
\* and lines are 0, level is 1, game_over is false and the current piece is
\* at rotation 0, origin (3, 0), with its 4 cells inside the board.
C3_FreshGame ==
  op \in {"new", "reset"}
    => /\ \A i \in 0..199 : board[i] = 0
       /\ score = w_of(0)
       /\ lines = w_of(0)
       /\ level(G) = w_of(1)
       /\ ~game_over
       /\ current.rot = 0 /\ current.x = 3 /\ current.y = 0
       /\ InBoard(current)

\* reset called on the game-over state of plan 2, an L piece drawn
C3_Witness == plan = 2 /\ op = "reset" /\ current.kind = L

\* C4: the piece ghost_piece() returns is a valid position in every
\* reachable state, the game-over states included.
C4_GhostValid == is_valid(board, ghost_piece(G))

R1 == rotate_cw(G)
R2 == rotate_cw(R1)
R3 == rotate_cw(R2)
R4 == rotate_cw(R3)

\* The number of the four rotate_cw calls that changed the piece.
Turned ==
  (IF R1.current # current THEN 1 ELSE 0)
    + (IF R2.current # R1.current THEN 1 ELSE 0)
    + (IF R3.current # R2.current THEN 1 ELSE 0)
    + (IF R4.current # R3.current THEN 1 ELSE 0)

\* C5 as stated: four rotate_cw calls in a row bring the rotation state
\* back to its value before the first.
C5_FourRotations == ~game_over => R4.current.rot = current.rot

\* C5 amended: each rotate_cw call either finds a valid placement and
\* advances the rotation by 1 mod 4, or leaves the piece unchanged; after
\* four calls the rotation is the original plus the number of calls that
\* found a placement, mod 4: the original when all four did.
C5_RotationCount ==
  ~game_over
    => /\ R4.current.rot = (current.rot + Turned) % 4
       /\ Turned = 4 => R4.current.rot = current.rot
       /\ R1.current.rot \in {current.rot, (current.rot + 1) % 4}
       /\ R1.current.rot = current.rot => R1.current = current

\* four successful rotations, a wall kick among them
C5_Witness ==
  ~game_over /\ op = "move_left" /\ Turned = 4 /\ R4.current.x # current.x

Level(ln) == w_add(w_div10(ln), w_of(1))

\* score + base(cleared) * level, exactly
Raised(sc, cleared, ln) ==
  w_add(sc, w_mul(CASE cleared = 1 -> 40 [] cleared = 2 -> 100
                    [] cleared = 3 -> 300 [] cleared = 4 -> 1200
                    [] OTHER -> 0,
                  Level(ln)))

\* C6: a tick or hard_drop that returns Locked{cleared, ..} raises the score
\* by exactly base(cleared) * level, the level taken from the line total
\* after this lock (below the saturation ceiling).
C6_ScorePerLock ==
  [][(op' \in {"tick", "hard_drop"} /\ ret'.tag = "Locked" /\ ~panicked'
        /\ w_fits(Raised(score, ret'.cleared, lines')))
       => score' = Raised(score, ret'.cleared, lines')]_vars

\* the lock that takes the line total from 8 to 12, at level 2
C6_Witness ==
  /\ op \in {"tick", "hard_drop"}
  /\ ret.tag = "Locked" /\ ret.cleared = 4
  /\ lines = w_of(12) /\ score = w_of(4800)

\* C7 as stated: from a state with level() = 1, a tick or hard_drop that
\* returns Locked{cleared: 4, ..} raises the score by exactly 1200.
C7_TetrisAtLevelOne ==
  [][(op' \in {"tick", "hard_drop"} /\ ret'.tag = "Locked"
        /\ ret'.cleared = 4 /\ level(G) = w_of(1))
       => score' = w_add(score, w_of(1200))]_vars

\* C7 amended: from a state with at most 5 lines cleared, so that the
\* level is still 1 after the four rows are counted, such a call raises
\* the score by exactly 1200.
C7_TetrisBelowSixLines ==
  [][(op' \in {"tick", "hard_drop"} /\ ret'.tag = "Locked"
        /\ ret'.cleared = 4 /\ w_leq(lines, w_of(5)))
       => score' = w_add(score, w_of(1200))]_vars

C7_Witness ==
  /\ op = "tick" /\ ret.tag = "Locked" /\ ret.cleared = 4
  /\ lines = w_of(4) /\ score = w_of(1200)

\* The pieces is_valid is asked about by the calls possible in this state:
\* the three translations, the five rotation candidates, the descent of
\* hard_drop and ghost_piece, and the spawn of the lookahead kind.
Probed ==
  {[current EXCEPT !.x = @ - 1], [current EXCEPT !.x = @ + 1]}
    \cup {[current EXCEPT !.rot = (@ + 1) % 4, !.x = @ + KICKS[i]] :
            i \in 1..Len(KICKS)}
    \cup {[current EXCEPT !.y = @ + d] :
            d \in 1..(ghost_piece(G).y - current.y + 1)}
    \cup {Piece(next, 0, 3, 0)}

\* The indices clear_lines computes: the scan, the copy (from, to), the top row.
clear_lines_indices ==
  {y * BOARD_W + x : y \in 0..(BOARD_H - 1), x \in 0..(BOARD_W - 1)}
    \cup {(yy - 1) * BOARD_W + x : yy \in 1..(BOARD_H - 1), x \in 0..(BOARD_W - 1)}
    \cup {yy * BOARD_W + x : yy \in 1..(BOARD_H - 1), x \in 0..(BOARD_W - 1)}
    \cup 0..(BOARD_W - 1)

\* C8: no call reaches an index outside [0, 200): the indices of is_valid,
\* lock_piece and clear_lines are in range, and the piece lock_piece would
\* write has all its cells at 0 <= x < 10, 0 <= y < 20.
C8_IndexInRange ==
  /\ ~panicked
  /\ \A p \in Probed : \A idx \in is_valid_indices(p) : idx >= 0 /\ idx < 200
  /\ \A idx \in clear_lines_indices : idx >= 0 /\ idx < 200
  /\ ~game_over
       => /\ \A idx \in lock_indices(descend(G).current) : idx >= 0 /\ idx < 200
          /\ InBoard(descend(G).current)

\* a piece was locked by lowering it to the floor at the right wall
C8_Witness ==
  /\ ~panicked /\ ret.tag = "Locked" /\ op = "tick"
  /\ board[199] # 0

NonEmpty(b) == {b[i] : i \in 0..199} \ {0}

\* The cells <<x, y>> of the piece where it comes to rest.
RestCells == {blocks_for(descend(G).current)[k] : k \in 1..4}

\* C9: the board always has 200 cells with values in 0..7, and a lock
\* writes the id (1..7) of the kind of the locked piece into its cells.
C9_Cells ==
  /\ [](DOMAIN board = 0..199 /\ \A i \in 0..199 : board[i] \in 0..7)
  /\ [][/\ NonEmpty(board') \subseteq (NonEmpty(board) \cup {current.kind})
        /\ (ret'.tag = "Locked" /\ ret'.cleared = 0 /\ ~game_over)
             => LET cells == RestCells
                IN  \A i \in 0..199 :
                      board'[i] = IF <<i % 10, i \div 10>> \in cells
                                    THEN current.kind ELSE board[i]]_vars

\* an L piece was locked
C9_Witness ==
  /\ ret.tag = "Locked" /\ ret.cleared = 0
  /\ \E i \in 0..199 : board[i] = 7

\* C10: apply_score sets score to min(score + base(cleared) * level,
\* 2^32 - 1) and no intermediate result overflows 32 bits.
C10_Saturates ==
  [][op' = "apply_score"
       => /\ ~panicked'
          /\ score' = IF w_fits(Raised(score, arg, lines))
                        THEN Raised(score, arg, lines) ELSE U32_MAX]_vars

-----------------------------------------------------------------------------
\* The number of non-empty cells of a board.
CountCells(b) == Cardinality({i \in 0..199 : b[i] # 0})

\* The board b with the on-board cells of the piece set to the id of its kind.
Written(b, piece) ==
  LET cells == {blocks_for(piece)[k] : k \in 1..4}
  IN  [i \in 0..199 |->
         IF <<i % 10, i \div 10>> \in cells THEN piece.kind ELSE b[i]]

\* The rows of b with no empty cell.
FullRows(b) == {y \in 0..19 : \A x \in 0..9 : b[y * 10 + x] # 0}

\* "Delete full rows": the rows of b that are not full, in their order from
\* top to bottom, packed at the bottom under as many empty rows as b has
\* full rows.
DeleteFullRows(b) ==
  LET full == FullRows(b)
      N    == Cardinality(full)
      kept == (0..19) \ full
      src  == [y \in 0..19 |->
                 IF y < N THEN 0
                 ELSE CHOOSE s \in kept :
                        Cardinality({t \in kept : t < s}) = y - N]
  IN  [i \in 0..199 |->
         IF i \div 10 < N THEN 0 ELSE b[src[i \div 10] * 10 + (i % 10)]]

\* The piece one row further down.
Down(piece) == [piece EXCEPT !.y = @ + 1]

\* C11: in a state that is not game over, tick returns Moved exactly when
\* the piece one row down is valid, and then only current.y changes, by +1;
\* otherwise it returns Locked and the piece is locked where it is, without
\* moving first.
C11_TickFrame ==
  [][(op' = "tick" /\ ~game_over /\ ~panicked')
       => LET can == is_valid(board, Down(current))
          IN  /\ (ret' = Moved) <=> can
              /\ can => /\ current' = Down(current)
                        /\ UNCHANGED <<board, score, lines, next, game_over>>
              /\ ~can => /\ ret'.tag = "Locked"
                         /\ board' = DeleteFullRows(Written(board, current))]_vars

\* a tick of the caller's own choice locked a piece
C11_Witness ==
  /\ op = "tick" /\ ret.tag = "Locked" /\ free = 1
  /\ CountCells(board) > 0

-----------------------------------------------------------------------------
\* The outcomes of calling tick until it first returns something other than
\* Moved; n is the draw of the call that locks.
RECURSIVE tick_until_locked(_, _)
tick_until_locked(g, n) ==
  LET rs == tick(g, n)
  IN  IF rs = {[g |-> try_move(g, 0, 1).g, ret |-> Moved]}
        THEN tick_until_locked(try_move(g, 0, 1).g, n)
        ELSE rs

\* The draw that made `next` the kind k.
DrawOf(k) == CHOOSE n \in Draws : random_piece(n) = k

\* C12: from a state that is not game over, hard_drop has the result and the
\* final state of tick called until it first returns Locked with the same
\* random draw, and the cells it locks are those of the piece that
\* ghost_piece returns before the call.
C12_HardDropIsTicks ==
  [][(op' = "hard_drop" /\ ~game_over /\ ~panicked')
       => /\ tick_until_locked(G, DrawOf(next')) = {[g |-> G', ret |-> ret']}
          /\ board' = DeleteFullRows(Written(board, ghost_piece(G)))]_vars

\* a hard drop of the caller's own choice on the empty board: the piece
\* fell to the floor
C12_Witness ==
  /\ op = "hard_drop" /\ ret.tag = "Locked" /\ free = 1
  /\ CountCells(board) = 4
  /\ \E x \in 0..9 : board[19 * 10 + x] # 0

-----------------------------------------------------------------------------
\* The current piece turned once clockwise and shifted by dx columns.
Kicked(dx) ==
  [current EXCEPT !.rot = (@ + 1) % 4, !.x = @ + dx]

\* The offsets in the order in which the claim lists them.
KickOrder == <<0, -1, 1, -2, 2>>

\* C13: in a state that is not game over, rotate_cw sets current to the
\* piece turned clockwise and shifted by the first of 0, -1, +1, -2, +2 that
\* makes it valid, and leaves it unchanged when none does; kind, y, board,
\* score, lines, next and game_over do not change and x changes by at most 2.
C13_FirstValidKick ==
  [][(op' = "rotate_cw" /\ ~game_over)
       => LET ok == {i \in 1..5 : is_valid(board, Kicked(KickOrder[i]))}
          IN  /\ current' = IF ok = {} THEN current
                            ELSE Kicked(KickOrder[CHOOSE i \in ok :
                                                    \A j \in ok : i <= j])
              /\ current'.kind = current.kind /\ current'.y = current.y
              /\ current'.x - current.x \in -2..2
              /\ UNCHANGED <<board, score, lines, next, game_over>>]_vars

\* the flat I above the standing one was turned: column 5 is blocked and
\* the piece went to column 4, the left kick, not to column 6
C13_Witness ==
  /\ plan = 11 /\ op = "rotate_cw" /\ free = 1
  /\ current.rot = 1 /\ current.x = 2

-----------------------------------------------------------------------------
(* clear_lines as a function of the board: rows 0, 1 and 16..19 are each   *)
(* empty, partly filled or full, the other rows are empty.  A filled cell  *)
(* of row y holds (y % 7) + 1 and a partly filled row y has its hole in    *)
(* column y % 10, so that every row can be told from the others.           *)

ClearRows == {0, 1, 16, 17, 18, 19}

SampleBoard(kind) ==
  [i \in 0..(NCells - 1) |->
     LET y == i \div BOARD_W
         x == i % BOARD_W
     IN  IF y \notin ClearRows \/ kind[y] = "empty" THEN 0
         ELSE IF kind[y] = "partial" /\ x = y % 10 THEN 0
         ELSE (y % 7) + 1]

InitClear ==
  /\ \E kind \in [ClearRows -> {"empty", "partial", "full"}] :
       board = SampleBoard(kind)
  /\ lines \in {w_of(0), w_of(HALF - 1)}
  /\ score = w_of(0)
  /\ arg = 0
  /\ current = Piece(I, 0, 3, 0)
  /\ next = I
  /\ game_over = FALSE
  /\ panicked = FALSE
  /\ op = "input"
  /\ ret = Unit
  /\ plan = 1
  /\ pc = 0
  /\ free = 0
  /\ locks = 0
  /\ fallen = 0
  /\ ticking = 0

\* clear_lines; arg receives the returned count.
ClearLines ==
  /\ op = "input"
  /\ \E r \in clear_lines(G) : Set(r.g) /\ arg' = r.cleared
  /\ op' = "clear_lines"
  /\ UNCHANGED <<ret, plan, pc, free, locks, fallen, ticking>>

NextClear == ClearLines

SpecClear == InitClear /\ [][NextClear]_vars

\* The value of a line or score counter below 2^31.
Value(w) == w[1] * HALF + w[2]

\* C14: clear_lines is "delete full rows": the rows that are not full keep
\* their order and are packed at the bottom under N empty rows, N being
\* the number of full rows; it returns N and adds N to lines.
C14_DeleteFullRows ==
  [][op' = "clear_lines"
       => /\ board' = DeleteFullRows(board)
          /\ arg' = Cardinality(FullRows(board))
          /\ Value(lines') = Value(lines) + Cardinality(FullRows(board))
          /\ ~panicked']_vars

\* rows 16..19 were full and rows 0 and 1 partly filled: four rows were
\* deleted, rows 0 and 1 are now rows 4 and 5 above the empty rows that
\* were under them, and lines went from 65535 to 65539
C14_Witness ==
  /\ op = "clear_lines" /\ arg = 4 /\ lines = <<1, 3>>
  /\ CountCells(board) = 18
  /\ board[4 * 10 + 1] = 1 /\ board[4 * 10] = 0
  /\ board[5 * 10] = 2 /\ board[5 * 10 + 1] = 0

-----------------------------------------------------------------------------
\* The board with the piece written has `cleared` full rows, at most 4, and
\* each of them holds a cell of the piece.
ClearedOf(piece, cleared) ==
  LET full == FullRows(Written(board, piece))
  IN  /\ cleared \in 0..4
      /\ cleared = Cardinality(full)
      /\ \A y \in full : \E k \in 1..4 : blocks_for(piece)[k][2] = y

\* C15: a tick, soft_drop or hard_drop that returns Locked reports between
\* 0 and 4 cleared rows, as many as the board had full rows once the piece
\* was written, and each of these rows holds a cell of the piece just
\* locked (the current piece, which hard_drop first lowers to its ghost).
C15_ClearedRows ==
  [][(ret'.tag = "Locked" /\ ~panicked')
       => /\ op' \in {"tick", "soft_drop"} => ClearedOf(current, ret'.cleared)
          /\ op' = "hard_drop" => ClearedOf(ghost_piece(G), ret'.cleared)]_vars

\* a soft_drop of the caller's own choice locked the I piece that closes
\* two rows
C15_Witness ==
  /\ op = "soft_drop" /\ ret.tag = "Locked" /\ ret.cleared = 2 /\ free = 1

-----------------------------------------------------------------------------
\* The piece at the spawn position lies on a non-empty cell of the board b.
Overlaps(b, piece) ==
  \E k \in 1..4 :
    LET c == blocks_for(piece)[k]
    IN  /\ c[1] \in 0..9 /\ c[2] \in 0..19
        /\ b[c[2] * 10 + c[1]] # 0

\* C16: after a tick or hard_drop that returns Locked, current has the kind
\* that was `next`, rotation 0 and origin (3, 0); game_over, in the
\* returned value and in the game, is true exactly when that piece lies on
\* a non-empty cell of the board left by locking and clearing; a piece that
\* overlaps stays current and is not written to the board.
C16_Spawn ==
  [][(op' \in {"tick", "hard_drop"} /\ ret'.tag = "Locked" /\ ~panicked')
       => /\ current'.kind = next /\ current'.rot = 0
          /\ current'.x = 3 /\ current'.y = 0
          /\ game_over' = Overlaps(board', current')
          /\ ret'.game_over = game_over'
          /\ op' = "tick"
               => board' = DeleteFullRows(Written(board, current))
          /\ op' = "hard_drop"
               => board' = DeleteFullRows(Written(board, ghost_piece(G)))]_vars

\* the fifth I piece standing in column 5 was locked by the caller's own
\* call and the O piece that followed it lies on the column: game over
C16_Witness ==
  /\ op \in {"tick", "hard_drop"} /\ ret.tag = "Locked" /\ free = 1
  /\ ret.game_over /\ game_over /\ current = Piece(O, 0, 3, 0)
  /\ Overlaps(board, current)

-----------------------------------------------------------------------------
\* C17: while game_over is false the four cells of the current piece are on
\* the visible board (0 <= x < 10, 0 <= y < 20) and empty there; and no
\* piece, the current one or one that a call tests or locks, has a cell
\* with y < 0, so that is_valid never exempts a cell and lock_piece never
\* skips one.
C17_PieceOnBoard ==
  /\ \A p \in Probed \cup {current, ghost_piece(G)} :
       \A k \in 1..4 : blocks_for(p)[k][2] >= 0
  /\ ~game_over
       => \A k \in 1..4 :
            LET c == blocks_for(current)[k]
            IN  /\ c[1] >= 0 /\ c[1] < 10
                /\ c[2] >= 0 /\ c[2] < 20
                /\ board[c[2] * 10 + c[1]] = 0

\* a piece at the left wall, turned there by the caller, in a game that goes
\* on
C17_Witness ==
  /\ op = "rotate_cw" /\ free = 1 /\ ~game_over
  /\ \E k \in 1..4 : blocks_for(current)[k][1] = 0
  /\ \E k \in 1..4 : blocks_for(current)[k][2] = current.y

-----------------------------------------------------------------------------
\* C18: between two public calls the board has no full row.
C18_NoFullRow == ~panicked => FullRows(board) = {}

\* three rows were cleared by the caller's own call and the two cells of the
\* fourth row stay on the board
C18_Witness ==
  /\ ret.tag = "Locked" /\ ret.cleared = 3 /\ free = 1
  /\ CountCells(board) = 2

-----------------------------------------------------------------------------
\* The four cells of the piece are empty on the board.
OnEmpty(piece) ==
  \A k \in 1..4 :
    board[blocks_for(piece)[k][2] * 10 + blocks_for(piece)[k][1]] = 0

\* C19: the number of non-empty cells is 4 times the number of pieces
\* locked since new() or the last reset() minus 10 times lines(); a lock
\* adds 4 cells on empty positions, a cleared row removes 10, and no other
\* call but reset changes the board.
C19_Conservation ==
  /\ [](~panicked => CountCells(board) = 4 * locks - 10 * Value(lines))
  /\ [][~panicked'
          => IF op' \in Drops /\ ret'.tag = "Locked"
               THEN /\ CountCells(board')
                         = CountCells(board) + 4 - 10 * ret'.cleared
                    /\ op' # "hard_drop" => OnEmpty(current)
                    /\ op' = "hard_drop" => OnEmpty(ghost_piece(G))
               ELSE IF op' = "reset" THEN CountCells(board') = 0
               ELSE board' = board]_vars

\* six pieces locked, two rows cleared, four cells left
C19_Witness ==
  /\ locks = 6 /\ lines = w_of(2) /\ CountCells(board) = 4 /\ free = 1
  /\ ret.tag = "Locked" /\ ret.cleared = 2

-----------------------------------------------------------------------------
(* The caller that keeps calling tick: once the recorded calls are made,   *)
(* in a game that goes on, it calls tick and nothing else until tick       *)
(* returns Locked.                                                         *)

KeepTick ==
  /\ ~Recorded
  /\ free = 0
  /\ ~panicked
  /\ ~game_over
  /\ ticking \in {0, 1}
  /\ \E n \in tick_draws(G) : \E r \in tick(G, n) :
       /\ Set(r.g)
       /\ ret' = r.ret
       /\ locks' = IF r.ret.tag = "Locked" THEN locks + 1 ELSE locks
       /\ fallen' = IF r.ret.tag = "Locked" THEN 0
                    ELSE IF r.ret.tag = "Moved" THEN fallen + 1 ELSE fallen
       /\ ticking' = IF r.ret.tag = "Locked" THEN 2 ELSE 1
  /\ op' = "tick"
  /\ UNCHANGED <<plan, pc, free, arg>>

NextFall == Next \/ KeepTick

\* The caller keeps calling: a tick that can be called is called.
SpecFall == Init /\ [][NextFall]_vars /\ WF_vars(KeepTick)

\* C20: a piece cannot fall forever.  Between two spawns current.y never
\* decreases and at most 19 calls return Moved, each of them lowering the
\* piece by one row, whatever moves and rotations come between them; a
\* caller that keeps calling tick receives Locked; and the piece is at most
\* 19 rows above its ghost, so the loops of hard_drop and ghost_piece end.
C20_FallEnds ==
  /\ [](~panicked => /\ fallen \in 0..19
                     /\ fallen = current.y
                     /\ ghost_piece(G).y - current.y \in 0..19)
  /\ [][(~panicked' /\ ~(ret'.tag = "Locked") /\ op' # "reset")
          => /\ current'.y >= current.y
             /\ ret'.tag = "Moved" => current'.y = current.y + 1]_vars
  /\ (ticking = 1 /\ ~game_over) ~> (ticking = 2 /\ ret.tag = "Locked")

\* the caller kept calling tick in a fresh game: 18 calls returned Moved
\* and the next one returned Locked, the piece lying on the floor
C20_Witness ==
  /\ ticking = 2 /\ ret.tag = "Locked" /\ op = "tick" /\ plan = 1
  /\ locks = 1 /\ \E i \in 0..9 : board[19 * 10 + i] # 0

====
